---- MODULE Spec2Model ----
(***************************************************************************)
(* A model of umesh: the compressed connection matrix                      *)
(* (connection_matrix.rs), orbit gathering over a half-edge permutation    *)
(* (permutation.rs) and the mesh / simplices set algebra (half_edge.rs).   *)
(*                                                                         *)
(* Rust vectors are TLA+ sequences; the 0-based index i of the code is     *)
(* position i + 1 of the sequence.  A panic (failed assert!, index out of  *)
(* range) is the value Panic, which every caller propagates.  The type     *)
(* Connection named by half_edge.rs is the compressed matrix of            *)
(* connection_matrix.rs.                                                   *)
(***************************************************************************)
EXTENDS Integers, Sequences, FiniteSets, TLC

VARIABLES
    \* ---- connection matrix (connection_matrix.rs)
    pairs,      \* the Vec<(usize, usize)> handed to from_vec
    mat,        \* the ConnectionMatrix built from it
    iter,       \* the IndexIter over mat: f_index, f_count, t_index
    emitted,    \* the items the IndexIter has returned so far
    mat2,       \* ConnectionMatrix::from_iter(mat.indices())
    tr,         \* mat.transpose()
    tr2,        \* mat.transpose().transpose()
    row,        \* the last get_connected(r): its argument and its slice
    mpc,        \* where the matrix scenario stands
    \* ---- Orbit::new (permutation.rs)
    oseq,       \* the slice handed to Orbit::new
    orot,       \* by how many places the second slice is rotated
    canon,      \* Orbit::new(oseq)
    canonRot,   \* Orbit::new(oseq rotated by orot)
    opc,        \* where the orbit scenario stands
    \* ---- gather_vertices, gather_faces, Mesh::from_permutation
    perm,       \* the permutation slice handed to the call
    call,       \* the function called on it
    gmode,      \* the gather running now: "vertices" or "faces"
    seed,       \* init of the closure being mapped over 0..len
    current,    \* its current
    orbit,      \* its orbit vector
    steps,      \* iterations of its loop so far
    found,      \* the orbits the map has produced so far
    gvertices,  \* what gather_vertices returned
    gfaces,     \* what gather_faces returned
    built,      \* what Mesh::from_permutation returned
    ppc,        \* where the call stands
    \* ---- Mesh and Simplices (half_edge.rs)
    ctor,       \* the constructor that built the Mesh, and its permutation
    mesh,       \* the Mesh
    base,       \* the Simplices that Mesh::simplicies returned
    sel,        \* the Simplices an operation on base returned
    origin,     \* the operation that returned sel
    res,        \* the last answer of is_complex or is_pure_complex
    spc         \* where the mesh scenario stands

varsM == <<pairs, mat, iter, emitted, mat2, tr, tr2, row, mpc>>
varsO == <<oseq, orot, canon, canonRot, opc>>
varsP == <<perm, call, gmode, seed, current, orbit, steps, found,
           gvertices, gfaces, built, ppc>>
varsS == <<ctor, mesh, base, sel, origin, res, spc>>
vars == <<varsM, varsO, varsP, varsS>>

\* ------------------------------------------------------------------ bounds

\* longest list of pairs handed to from_vec
MaxLen == 3
\* largest row or column index in those pairs
MaxIdx == 2
\* longest slice handed to Orbit::new
MaxOrbitLen == 4
\* largest half-edge index in such a slice
MaxEdge == 3
\* longest permutation slice handed to the gather functions
MaxN == 4
\* largest entry of such a slice (an entry >= its length is out of range)
MaxVal == 4
\* how many iterations past the slice's length a trace loop is followed
MaxExtra == 2
\* longest pair list of a matrix handed to Mesh::from_connections; its pairs
\* are drawn over the indices 0..(MeshMaxLen \div 2)
MeshMaxLen == 2

\* ----------------------------------------------------------------- helpers

None == [none |-> TRUE]
Panic == [panicked |-> TRUE]
IsPanic(r) == "panicked" \in DOMAIN r
IsNone(r) == "none" \in DOMAIN r

Max(a, b) == IF a >= b THEN a ELSE b

BoundedSeq(S, n) == UNION {[1..k -> S] : k \in 0..n}

\* ------------------------------------------------- connection_matrix.rs

\* the derived lexicographic order of (usize, usize)
PairLeq(a, b) == a[1] < b[1] \/ (a[1] = b[1] /\ a[2] <= b[2])

RECURSIVE InsertPair(_, _)
InsertPair(x, s) ==
    IF s = <<>> THEN <<x>>
    ELSE IF PairLeq(x, Head(s)) THEN <<x>> \o s
    ELSE <<Head(s)>> \o InsertPair(x, Tail(s))

\* indices.sort_unstable()
RECURSIVE SortPairs(_)
SortPairs(s) == IF s = <<>> THEN <<>> ELSE InsertPair(Head(s), SortPairs(Tail(s)))

\* while f != current_fr { fr.push(n); current_fr += 1; }
PushRowsOffByOne(fr, current_fr, f, n) ==
    fr \o [k \in 1..(f - current_fr) |-> n + 1]

RECURSIVE PushRows(_, _, _, _)
PushRows(fr, current_fr, f, n) ==
    IF f # current_fr THEN PushRows(Append(fr, n), current_fr + 1, f, n) ELSE fr

\* the for loop of from_sorted_vec from its k-th item on (n = k - 1)
RECURSIVE Compress(_, _, _)
Compress(indices, k, acc) ==
    IF k > Len(indices) THEN acc
    ELSE LET f == indices[k][1]
             t == indices[k][2]
             n == k - 1
         IN  Compress(indices, k + 1,
                 [fr |-> PushRows(acc.fr, acc.current_fr, f, n),
                  current_fr |-> f,
                  to_max |-> Max(acc.to_max, t),
                  to |-> Append(acc.to, t)])

FromSortedVec(indices) ==
    LET acc == Compress(indices, 1,
                   [fr |-> <<0>>, current_fr |-> 0, to_max |-> 0, to |-> <<>>])
    IN  [fr |-> Append(acc.fr, Len(acc.to)), to |-> acc.to, to_max |-> acc.to_max]

FromVec(indices) == FromSortedVec(SortPairs(indices))

\* from_iter collects and calls from_vec; a panic of the iterator propagates
FromIter(items) == IF IsPanic(items) THEN Panic ELSE FromVec(items.items)

\* get_connected: self.fr[from_index], self.fr[from_index + 1], &self.to[first..last]
GetConnected(m, from_index) ==
    IF from_index + 1 >= Len(m.fr) THEN Panic
    ELSE LET first == m.fr[from_index + 1]
             last == m.fr[from_index + 2]
         IN  [slice |-> SubSeq(m.to, first + 1, last)]

Shape(m) == <<Len(m.fr) - 1, m.to_max + 1>>

\* indices(): a fresh IndexIter
NewIndexIter == [f_index |-> 0, f_count |-> 0, t_index |-> 0]

\* IndexIter::next: the iterator after the call and the Option it returns
IndexIterNext(m, it) ==
    IF it.t_index >= Len(m.to) THEN [it |-> it, item |-> None]
    ELSE IF it.f_index >= Len(m.fr) THEN [it |-> it, item |-> Panic]
    ELSE LET f == it.f_index
             count == it.f_count + 1
             advance == count >= m.fr[it.f_index + 1]
             t == m.to[it.t_index + 1]
         IN  [it |-> [f_index |-> IF advance THEN it.f_index + 1 ELSE it.f_index,
                      f_count |-> IF advance THEN 0 ELSE count,
                      t_index |-> it.t_index + 1],
              item |-> [some |-> <<f, t>>]]

\* the iterator run to its end, as collect() does
RECURSIVE Collect(_, _, _)
Collect(m, it, out) ==
    LET r == IndexIterNext(m, it)
    IN  IF IsPanic(r.item) THEN Panic
        ELSE IF IsNone(r.item) THEN [items |-> out]
        ELSE Collect(m, r.it, Append(out, r.item.some))

Indices(m) == Collect(m, NewIndexIter, <<>>)

SwapItems(items) ==
    IF IsPanic(items) THEN Panic
    ELSE [items |-> [k \in 1..Len(items.items) |-> <<items.items[k][2], items.items[k][1]>>]]

\* transpose: Self::from_iter(self.indices().map(|(f, t)| (t, f)))
Transpose(m) == IF IsPanic(m) THEN Panic ELSE FromIter(SwapItems(Indices(m)))

\* ---- the matrix scenario

Idx == 0..MaxIdx

\* tests::connnection_matrix_square, _nonsquare, _empty_row, indices_iter
TestSquare == <<<<0,0>>, <<0,2>>, <<1,0>>, <<1,1>>, <<2,1>>, <<2,3>>, <<3,0>>, <<3,3>>>>
TestNonSquare == <<<<0,0>>, <<0,2>>, <<1,1>>, <<1,3>>, <<2,0>>, <<2,3>>>>
TestEmptyRow == <<<<0,0>>, <<0,2>>, <<2,1>>, <<2,3>>, <<3,0>>, <<3,3>>>>
TestIndicesIter == <<<<0,0>>, <<1,1>>, <<2,1>>, <<2,3>>, <<3,0>>, <<3,3>>>>

PairLists ==
    BoundedSeq(Idx \X Idx, MaxLen)
        \cup {TestSquare, TestNonSquare, TestEmptyRow, TestIndicesIter}

IdleM ==
    /\ pairs = <<>> /\ mat = None /\ iter = None /\ emitted = <<>>
    /\ mat2 = None /\ tr = None /\ tr2 = None /\ row = None /\ mpc = "idle"

InitM ==
    /\ pairs \in PairLists
    /\ mat = None /\ iter = None /\ emitted = <<>>
    /\ mat2 = None /\ tr = None /\ tr2 = None /\ row = None
    /\ mpc = "start"

\* ConnectionMatrix::from_vec(pairs)
DoFromVec ==
    /\ mpc = "start"
    /\ mat' = FromVec(pairs)
    /\ mpc' = "built"
    /\ UNCHANGED <<pairs, iter, emitted, mat2, tr, tr2, row, varsO, varsP, varsS>>

\* mat.indices()
DoIndices ==
    /\ mpc = "built"
    /\ iter' = NewIndexIter
    /\ emitted' = <<>>
    /\ mpc' = "iterating"
    /\ UNCHANGED <<pairs, mat, mat2, tr, tr2, row, varsO, varsP, varsS>>

\* one call of IndexIter::next by the collect() of from_iter
DoIndexIterNext ==
    /\ mpc = "iterating"
    /\ LET r == IndexIterNext(mat, iter)
       IN  /\ iter' = r.it
           /\ emitted' = IF "some" \in DOMAIN r.item
                         THEN Append(emitted, r.item.some) ELSE emitted
           /\ mpc' = IF IsPanic(r.item) THEN "panic"
                     ELSE IF IsNone(r.item) THEN "collected" ELSE "iterating"
    /\ UNCHANGED <<pairs, mat, mat2, tr, tr2, row, varsO, varsP, varsS>>

\* ConnectionMatrix::from_iter(mat.indices()), once the iterator is exhausted
DoFromIter ==
    /\ mpc = "collected"
    /\ mat2' = FromVec(emitted)
    /\ mpc' = "roundtrip"
    /\ UNCHANGED <<pairs, mat, iter, emitted, tr, tr2, row, varsO, varsP, varsS>>

\* mat.transpose()
DoTranspose ==
    /\ mpc = "built"
    /\ tr' = Transpose(mat)
    /\ mpc' = "transposed"
    /\ UNCHANGED <<pairs, mat, iter, emitted, mat2, tr2, row, varsO, varsP, varsS>>

\* mat.transpose().transpose()
DoTransposeBack ==
    /\ mpc = "transposed"
    /\ tr2' = Transpose(tr)
    /\ mpc' = "transposed2"
    /\ UNCHANGED <<pairs, mat, iter, emitted, mat2, tr, row, varsO, varsP, varsS>>

\* mat.get_connected(r), for a row index up to one past the last row
DoGetConnected ==
    /\ mpc = "built"
    /\ \E r \in 0..(Len(mat.fr) - 1) :
           row' = [from_index |-> r, result |-> GetConnected(mat, r)]
    /\ mpc' = "row"
    /\ UNCHANGED <<pairs, mat, iter, emitted, mat2, tr, tr2, varsO, varsP, varsS>>

NextM ==
    \/ DoFromVec
    \/ DoIndices
    \/ DoIndexIterNext
    \/ DoFromIter
    \/ DoTranspose
    \/ DoTransposeBack
    \/ DoGetConnected

\* ---- claims about the connection matrix

MaxRow(ps) == CHOOSE r \in {ps[k][1] : k \in DOMAIN ps} :
                  \A k \in DOMAIN ps : ps[k][1] <= r
MaxCol(ps) == CHOOSE c \in {ps[k][2] : k \in DOMAIN ps} :
                  \A k \in DOMAIN ps : ps[k][2] <= c
Occurrences(s, x) == Cardinality({k \in DOMAIN s : s[k] = x})
Ascending(s) == \A k \in 1..(Len(s) - 1) : s[k] <= s[k + 1]
SwappedPairs(ps) == [k \in DOMAIN ps |-> <<ps[k][2], ps[k][1]>>]
Built == mpc \notin {"idle", "start"}

\* C1: the items m.indices() returns are the sorted pair list m was compressed
\* from, the iterator never panics, and from_iter(m.indices()) = m.
C1_RoundTrip ==
    /\ mpc # "panic"
    /\ mpc \in {"collected", "roundtrip"} => emitted = SortPairs(pairs)
    /\ mpc = "roundtrip" => mat2 = mat

\* C2: m.transpose() is the matrix of the swapped pairs, r is in
\* transpose(m).get_connected(c) exactly when c is in m.get_connected(r), and
\* transposing twice gives m back.
C2_TransposeSwaps ==
    /\ mpc \in {"transposed", "transposed2"} =>
           /\ tr = FromVec(SwappedPairs(pairs))
           /\ \A r \in 0..(Len(mat.fr) - 2), c \in 0..(Len(tr.fr) - 2) :
                  (\E k \in DOMAIN GetConnected(tr, c).slice :
                       GetConnected(tr, c).slice[k] = r)
                  <=> (\E k \in DOMAIN GetConnected(mat, r).slice :
                           GetConnected(mat, r).slice[k] = c)
    /\ mpc = "transposed2" => tr2 = mat

\* C3: for a non-empty pair list, sorted or not, from_vec gives a row pointer
\* fr that starts at 0, never decreases, has num_rows + 1 entries and ends at
\* the number of pairs; get_connected(r) is the ascending sequence of the
\* columns paired with r, duplicates kept, empty for a row without pairs;
\* shape() = (max row + 1, max col + 1); and the pairs of
\* tests::connnection_matrix_square compress as that test says.
C3_Compression ==
    (Built /\ pairs # <<>>) =>
        /\ mat.fr[1] = 0
        /\ Ascending(mat.fr)
        /\ Len(mat.fr) = MaxRow(pairs) + 2
        /\ mat.fr[Len(mat.fr)] = Len(pairs)
        /\ Len(mat.to) = Len(pairs)
        /\ \A r \in 0..MaxRow(pairs) :
               LET got == GetConnected(mat, r)
               IN  /\ ~IsPanic(got)
                   /\ Ascending(got.slice)
                   /\ \A c \in 0..MaxCol(pairs) :
                          Occurrences(got.slice, c) = Occurrences(pairs, <<r, c>>)
                   /\ Len(got.slice) = Cardinality({k \in DOMAIN pairs : pairs[k][1] = r})
        /\ (mpc = "row" /\ row.from_index <= MaxRow(pairs)) =>
               row.result = GetConnected(mat, row.from_index)
        /\ Shape(mat) = <<MaxRow(pairs) + 1, MaxCol(pairs) + 1>>
        /\ pairs = TestSquare =>
               /\ mat = [fr |-> <<0, 2, 4, 6, 8>>,
                         to |-> <<0, 2, 0, 1, 1, 3, 0, 3>>, to_max |-> 3]
               /\ Shape(mat) = <<4, 4>>
               /\ GetConnected(mat, 2) = [slice |-> <<1, 3>>]

\* an unsorted list with a repeated pair and a row without pairs, compressed,
\* and that empty row read
C3_Witness ==
    /\ mpc = "row"
    /\ pairs # <<>>
    /\ pairs # SortPairs(pairs)
    /\ \E i, j \in DOMAIN pairs : i < j /\ pairs[i] = pairs[j]
    /\ row.from_index < MaxRow(pairs)
    /\ row.result = [slice |-> <<>>]

\* ------------------------------------------------------- permutation.rs

\* the argmin loop of Orbit::new from its k-th item on (i = k - 1)
RECURSIVE ArgMin(_, _, _, _)
ArgMin(edges, k, argmin, min) ==
    IF k > Len(edges) THEN argmin
    ELSE IF min > edges[k] THEN ArgMin(edges, k + 1, k - 1, edges[k])
    ELSE ArgMin(edges, k + 1, argmin, min)

\* Orbit::new without the rotation
OrbitNewUnrotated(edges) ==
    IF Len(edges) = 0 THEN Panic ELSE [edges |-> edges]

\* Orbit::new: assert!(edges.len() > 0), argmin, split_at(argmin), b chained to a
OrbitNew(edges) ==
    IF Len(edges) = 0 THEN Panic
    ELSE LET argmin == ArgMin(edges, 1, 0, edges[1])
             a == SubSeq(edges, 1, argmin)
             b == SubSeq(edges, argmin + 1, Len(edges))
         IN  [edges |-> b \o a]

\* ---- the orbit scenario

\* the slice s rotated left by k places
Rotate(s, k) == SubSeq(s, k + 1, Len(s)) \o SubSeq(s, 1, k)

\* tests::orbit_new
TestOrbit == <<2, 1, 3>>

OrbitInputs ==
    (BoundedSeq(0..MaxEdge, MaxOrbitLen) \ {<<>>}) \cup {TestOrbit}

IdleO ==
    /\ oseq = <<>> /\ orot = 0 /\ canon = None /\ canonRot = None /\ opc = "idle"

InitO ==
    /\ oseq \in OrbitInputs
    /\ orot \in 0..(Len(oseq) - 1)
    /\ canon = None /\ canonRot = None
    /\ opc = "start"

\* Orbit::new(oseq)
DoOrbitNew ==
    /\ opc = "start"
    /\ canon' = OrbitNew(oseq)
    /\ opc' = "first"
    /\ UNCHANGED <<oseq, orot, canonRot, varsM, varsP, varsS>>

\* Orbit::new of the rotated slice
DoOrbitNewRotated ==
    /\ opc = "first"
    /\ canonRot' = OrbitNew(Rotate(oseq, orot))
    /\ opc' = "both"
    /\ UNCHANGED <<oseq, orot, canon, varsM, varsP, varsS>>

NextO ==
    \/ DoOrbitNew
    \/ DoOrbitNewRotated

\* ---- claims about Orbit::new

MinOf(s) == CHOOSE x \in {s[k] : k \in DOMAIN s} : \A k \in DOMAIN s : x <= s[k]

\* C7 as stated: for every non-empty slice and every rotation of it, Orbit::new
\* gives the same orbit for both, and that orbit starts with the minimum.
C7_RotationInvariant ==
    opc = "both" =>
        /\ canon = canonRot
        /\ canon.edges[1] = MinOf(oseq)

\* C7 as amended: Orbit::new always returns a rotation of its slice that starts
\* with the minimum; when the minimum occurs once in the slice, every rotation
\* of the slice gives the same orbit; and [2, 1, 3] gives [1, 3, 2].
C7_RotationInvariantDistinctMin ==
    /\ opc \in {"first", "both"} =>
           /\ canon.edges[1] = MinOf(oseq)
           /\ \E k \in 0..(Len(oseq) - 1) : canon.edges = Rotate(oseq, k)
           /\ oseq = TestOrbit => canon = [edges |-> <<1, 3, 2>>]
    /\ (opc = "both" /\ Occurrences(oseq, MinOf(oseq)) = 1) => canon = canonRot

\* a slice of three or more indices whose minimum occurs once and not first,
\* canonicalized together with a proper rotation of it
C7_Witness ==
    /\ opc = "both"
    /\ Len(oseq) >= 3
    /\ Occurrences(oseq, MinOf(oseq)) = 1
    /\ oseq[1] # MinOf(oseq)
    /\ orot # 0
    /\ canonRot.edges # Rotate(oseq, orot)


\* ---- orbit gathering

Twin(index) == IF index % 2 = 0 THEN index + 1 ELSE index - 1

\* impl Ord for Orbit: cmp from index i on; indexing past either vector panics
RECURSIVE OrbitCmp(_, _, _)
OrbitCmp(a, b, i) ==
    IF i >= Len(a.edges) \/ i >= Len(b.edges) THEN "panic"
    ELSE IF a.edges[i + 1] < b.edges[i + 1] THEN "Less"
    ELSE IF a.edges[i + 1] > b.edges[i + 1] THEN "Greater"
    ELSE IF i = Len(a.edges) - 1 THEN "Equal"
    ELSE OrbitCmp(a, b, i + 1)

RECURSIVE InsertOrbit(_, _)
InsertOrbit(x, s) ==
    IF s = <<>> THEN [items |-> <<x>>]
    ELSE LET c == OrbitCmp(x, Head(s), 0)
         IN  IF c = "panic" THEN Panic
             ELSE IF c = "Greater"
             THEN LET rest == InsertOrbit(x, Tail(s))
                  IN  IF IsPanic(rest) THEN Panic
                      ELSE [items |-> <<Head(s)>> \o rest.items]
             ELSE [items |-> <<x>> \o s]

\* vs.sort_unstable(), which compares with Orbit::cmp
RECURSIVE SortOrbits(_)
SortOrbits(s) ==
    IF s = <<>> THEN [items |-> <<>>]
    ELSE LET rest == SortOrbits(Tail(s))
         IN  IF IsPanic(rest) THEN Panic ELSE InsertOrbit(Head(s), rest.items)

\* vs.dedup(): of consecutive equal orbits the first is kept
RECURSIVE Dedup(_)
Dedup(s) ==
    IF Len(s) <= 1 THEN s
    ELSE IF s[1] = s[2] THEN Dedup(Tail(s))
    ELSE <<s[1]>> \o Dedup(Tail(s))

\* gather without the dedup
SortDedupNoDedup(vs) ==
    LET sorted == SortOrbits(vs)
    IN  IF IsPanic(sorted) THEN Panic ELSE [orbits |-> sorted.items]

\* the end of gather_vertices and gather_faces: sort_unstable, dedup, return
SortDedup(vs) ==
    LET sorted == SortOrbits(vs)
    IN  IF IsPanic(sorted) THEN Panic ELSE [orbits |-> Dedup(sorted.items)]

\* the index of permutation the loop body reads: twin(current) in
\* gather_vertices, current in gather_faces
ReadIndex(mode, cur) == IF mode = "vertices" THEN Twin(cur) ELSE cur

\* the loop of one closure run to its break
RECURSIVE TraceOrbit(_, _, _, _, _)
TraceOrbit(permutation, mode, init, cur, orb) ==
    LET idx == ReadIndex(mode, cur)
    IN  IF idx >= Len(permutation) THEN Panic
        ELSE LET nxt == permutation[idx + 1]
             IN  IF nxt = init THEN OrbitNew(orb)
                 ELSE TraceOrbit(permutation, mode, init, nxt, Append(orb, nxt))

\* gather_vertices ("vertices") and gather_faces ("faces") as one call
GatherOrbits(permutation, mode) ==
    IF Len(permutation) % 2 # 0 THEN Panic
    ELSE LET vs == [k \in 1..Len(permutation) |->
                        TraceOrbit(permutation, mode, k - 1, k - 1, <<k - 1>>)]
         IN  IF \E k \in DOMAIN vs : IsPanic(vs[k]) THEN Panic ELSE SortDedup(vs)

GatherVertices(permutation) == GatherOrbits(permutation, "vertices")
GatherFaces(permutation) == GatherOrbits(permutation, "faces")

\* ------------------------------------------------------ half_edge.rs: Mesh

\* from_connections: the assert_eq! on the shapes, then the two transposes
FromConnections(vertex_edge, edge_face) ==
    IF Shape(vertex_edge)[2] # Shape(edge_face)[1] THEN Panic
    ELSE LET edge_vertex == Transpose(vertex_edge)
             face_edge == Transpose(edge_face)
         IN  IF IsPanic(edge_vertex) \/ IsPanic(face_edge) THEN Panic
             ELSE [vertex_edge |-> vertex_edge, edge_vertex |-> edge_vertex,
                   edge_face |-> edge_face, face_edge |-> face_edge]

\* orbits.iter().enumerate().map(..).flatten() from the k-th orbit on: the
\* pairs (v, e) for vertex_edge, (e, f) for edge_face
RECURSIVE OrbitPairs(_, _, _)
OrbitPairs(orbits, k, ownerFirst) ==
    IF k > Len(orbits) THEN <<>>
    ELSE [i \in 1..Len(orbits[k].edges) |->
             IF ownerFirst THEN <<k - 1, orbits[k].edges[i]>>
             ELSE <<orbits[k].edges[i], k - 1>>]
         \o OrbitPairs(orbits, k + 1, ownerFirst)

\* from_permutation once both gathers have returned
MeshOfOrbits(vertices, faces) ==
    FromConnections(FromVec(OrbitPairs(vertices, 1, TRUE)),
                    FromVec(OrbitPairs(faces, 1, FALSE)))

FromPermutation(permutation) ==
    LET vs == GatherVertices(permutation)
    IN  IF IsPanic(vs) THEN Panic
        ELSE LET fs == GatherFaces(permutation)
             IN  IF IsPanic(fs) THEN Panic
                 ELSE MeshOfOrbits(vs.orbits, fs.orbits)

\* ---- the gather scenario: one call, followed loop iteration by loop iteration

\* tests::permutations (lib.rs)
TestPermutation == <<2, 7, 4, 1, 6, 3, 0, 5>>

PermutationInputs == BoundedSeq(0..MaxVal, MaxN) \cup {TestPermutation}

InitP ==
    /\ perm \in PermutationInputs
    /\ call \in {"gather_vertices", "gather_faces", "from_permutation"}
    /\ gmode = IF call = "gather_faces" THEN "faces" ELSE "vertices"
    /\ seed = 0 /\ current = 0 /\ orbit = <<>> /\ steps = 0 /\ found = <<>>
    /\ gvertices = None /\ gfaces = None /\ built = None
    /\ ppc = "enter"

\* entering gather_vertices or gather_faces: the assert_eq! on the length and
\* the start of the first closure
DoEnterGather ==
    /\ ppc = "enter"
    /\ found' = <<>>
    /\ seed' = 0 /\ current' = 0 /\ steps' = 0
    /\ orbit' = IF Len(perm) > 0 THEN <<0>> ELSE <<>>
    /\ ppc' = IF Len(perm) % 2 # 0 THEN "panic"
              ELSE IF Len(perm) = 0 THEN "collected" ELSE "tracing"
    /\ UNCHANGED <<perm, call, gmode, gvertices, gfaces, built, varsM, varsO, varsS>>

\* one iteration of the closure's loop; on break, Orbit::new and the next closure
DoLoopIteration ==
    /\ ppc = "tracing"
    /\ steps < Len(perm) + MaxExtra
    /\ LET idx == ReadIndex(gmode, current)
       IN  IF idx >= Len(perm)
           THEN /\ ppc' = "panic"
                /\ UNCHANGED <<seed, current, orbit, steps, found>>
           ELSE LET nxt == perm[idx + 1]
                IN  IF nxt # seed
                    THEN /\ current' = nxt
                         /\ orbit' = Append(orbit, nxt)
                         /\ steps' = steps + 1
                         /\ UNCHANGED <<seed, found, ppc>>
                    ELSE /\ found' = Append(found, OrbitNew(orbit))
                         /\ steps' = 0
                         /\ IF seed + 1 < Len(perm)
                            THEN /\ seed' = seed + 1
                                 /\ current' = seed + 1
                                 /\ orbit' = <<seed + 1>>
                                 /\ UNCHANGED ppc
                            ELSE /\ ppc' = "collected"
                                 /\ UNCHANGED <<seed, current, orbit>>
    /\ UNCHANGED <<perm, call, gmode, gvertices, gfaces, built, varsM, varsO, varsS>>

\* the map has run over every seed: sort_unstable, dedup, return; then
\* from_permutation goes on to gather_faces or to building the matrices
DoSortDedup ==
    /\ ppc = "collected"
    /\ LET vs == SortDedup(found)
       IN  IF IsPanic(vs)
           THEN /\ ppc' = "panic"
                /\ UNCHANGED <<gmode, gvertices, gfaces>>
           ELSE IF gmode = "vertices"
           THEN /\ gvertices' = vs
                /\ gmode' = IF call = "from_permutation" THEN "faces" ELSE gmode
                /\ ppc' = IF call = "from_permutation" THEN "enter" ELSE "done"
                /\ UNCHANGED gfaces
           ELSE /\ gfaces' = vs
                /\ ppc' = IF call = "from_permutation" THEN "build" ELSE "done"
                /\ UNCHANGED <<gmode, gvertices>>
    /\ UNCHANGED <<perm, call, seed, current, orbit, steps, found, built,
                   varsM, varsO, varsS>>

\* the rest of from_permutation: both from_iter calls and from_connections
DoBuildMesh ==
    /\ ppc = "build"
    /\ built' = MeshOfOrbits(gvertices.orbits, gfaces.orbits)
    /\ ppc' = IF IsPanic(built') THEN "panic" ELSE "done"
    /\ UNCHANGED <<perm, call, gmode, seed, current, orbit, steps, found,
                   gvertices, gfaces, varsM, varsO, varsS>>

NextP ==
    \/ DoEnterGather
    \/ DoLoopIteration
    \/ DoSortDedup
    \/ DoBuildMesh

\* ---- claims about orbit gathering

Entries(s) == {s[k] : k \in DOMAIN s}
IsBijection(s) == Entries(s) = 0..(Len(s) - 1)
Malformed(s) == Len(s) % 2 # 0 \/ ~IsBijection(s)

\* C5: on a malformed slice (odd length, an entry out of range, or not a
\* bijection) no call panics, no trace runs n iterations without closing, and
\* no call returns orbits or a mesh: each ends by reporting the error.
C5_MalformedRejected ==
    Malformed(perm) =>
        /\ ppc # "panic"
        /\ ppc = "tracing" => steps < Len(perm)
        /\ ppc # "done"

\* the orbit that holds h, and the successor of h in it
Holders(orbits, h) ==
    {<<k, i>> \in (DOMAIN orbits) \X (1..Len(perm)) :
         i <= Len(orbits[k].edges) /\ orbits[k].edges[i] = h}
CyclicNext(edges, i) == edges[(i % Len(edges)) + 1]

OrbitsPartition(orbits, mode) ==
    /\ \A j, k \in DOMAIN orbits : j # k => orbits[j] # orbits[k]
    /\ \A h \in 0..(Len(perm) - 1) : Cardinality(Holders(orbits, h)) = 1
    /\ \A k \in DOMAIN orbits : \A i \in DOMAIN orbits[k].edges :
           /\ orbits[k].edges[i] \in 0..(Len(perm) - 1)
           /\ CyclicNext(orbits[k].edges, i)
                  = perm[ReadIndex(mode, orbits[k].edges[i]) + 1]

\* C6: on a bijection of even length no call panics, every trace closes
\* within n iterations, the orbits returned are duplicate-free and partition
\* the half-edges (with next[x], resp. next[x xor 1], as cyclic successor), and
\* from_permutation returns a mesh whose vertex_edge column bound equals its
\* edge_face row bound.
C6_OrbitsPartition ==
    (ppc # "idle" /\ ~Malformed(perm)) =>
        /\ ppc # "panic"
        /\ ppc = "tracing" => steps < Len(perm)
        /\ gvertices # None => OrbitsPartition(gvertices.orbits, "vertices")
        /\ gfaces # None => OrbitsPartition(gfaces.orbits, "faces")
        /\ (ppc = "done" /\ call = "from_permutation") =>
               /\ ~IsPanic(built)
               /\ Shape(built.vertex_edge)[2] = Shape(built.edge_face)[1]

\* Mesh::from_permutation on the slice of tests::permutations, returned: four
\* vertex orbits and two face orbits over its eight half-edges
C6_Witness ==
    /\ ppc = "done" /\ call = "from_permutation"
    /\ perm = TestPermutation
    /\ ~IsPanic(built)
    /\ Len(gvertices.orbits) = 4 /\ Len(gfaces.orbits) = 2
    /\ Shape(built.vertex_edge) = <<4, 8>> /\ Shape(built.edge_face) = <<8, 2>>

\* ------------------------------------------------- half_edge.rs: Simplices

Range(s) == {s[k] : k \in DOMAIN s}

\* Connection::gather_connected: the union of the rows of the given indices;
\* a row index past the last row fails, as get_connected does
GatherConnected(m, rows) ==
    IF \E r \in rows : IsPanic(GetConnected(m, r)) THEN Panic
    ELSE [set |-> UNION {Range(GetConnected(m, r).slice) : r \in rows}]

\* Mesh::simplicies
Simplicies(vertices, edges, faces) ==
    [vertices |-> Range(vertices), edges |-> Range(edges), faces |-> Range(faces)]

\* impl Sub for Simplices
Sub(a, b) ==
    IF IsPanic(a) \/ IsPanic(b) THEN Panic
    ELSE [vertices |-> a.vertices \ b.vertices,
          edges |-> a.edges \ b.edges,
          faces |-> a.faces \ b.faces]

IsComplex(m, S) ==
    LET edges == GatherConnected(m.face_edge, S.faces)
    IN  IF IsPanic(edges) THEN Panic
        ELSE IF ~(edges.set \subseteq S.edges) THEN [value |-> FALSE]
        ELSE LET vertices == GatherConnected(m.edge_vertex, edges.set)
             IN  IF IsPanic(vertices) THEN Panic
                 ELSE [value |-> vertices.set \subseteq S.vertices]

IsPureComplex(m, S) ==
    LET edges == GatherConnected(m.face_edge, S.faces)
    IN  IF IsPanic(edges) THEN Panic
        ELSE IF edges.set # S.edges THEN [value |-> None]
        ELSE LET vertices == GatherConnected(m.edge_vertex, edges.set)
             IN  IF IsPanic(vertices) THEN Panic
                 ELSE IF vertices.set # S.vertices THEN [value |-> None]
                 ELSE IF S.faces # {} THEN [value |-> [some |-> 2]]
                 ELSE IF S.edges # {} THEN [value |-> [some |-> 1]]
                 ELSE [value |-> [some |-> 0]]

Star(m, S) ==
    IF IsPanic(S) THEN Panic
    ELSE LET fromVertices == GatherConnected(m.vertex_edge, S.vertices)
         IN  IF IsPanic(fromVertices) THEN Panic
             ELSE LET edges == fromVertices.set \cup S.edges
                      fromEdges == GatherConnected(m.edge_face, edges)
                  IN  IF IsPanic(fromEdges) THEN Panic
                      ELSE [vertices |-> S.vertices,
                            edges |-> edges,
                            faces |-> fromEdges.set \cup S.faces]

Closure(m, S) ==
    IF IsPanic(S) THEN Panic
    ELSE LET fromFaces == GatherConnected(m.face_edge, S.faces)
         IN  IF IsPanic(fromFaces) THEN Panic
             ELSE LET edges == fromFaces.set \cup S.edges
                      fromEdges == GatherConnected(m.edge_vertex, edges)
                  IN  IF IsPanic(fromEdges) THEN Panic
                      ELSE [vertices |-> fromEdges.set \cup S.vertices,
                            edges |-> edges,
                            faces |-> S.faces]

\* link with the operands of the subtraction exchanged
LinkExchanged(m, S) == Sub(Star(m, Closure(m, S)), Closure(m, Star(m, S)))

\* link: self.star().closure() - self.closure().star()
Link(m, S) == Sub(Closure(m, Star(m, S)), Star(m, Closure(m, S)))

\* ---- the mesh scenario

\* the index ranges of a mesh
VertexRange(m) == 0..(Shape(m.vertex_edge)[1] - 1)
EdgeRange(m) == 0..(Shape(m.edge_face)[1] - 1)
FaceRange(m) == 0..(Shape(m.edge_face)[2] - 1)

\* the slices of even length that are bijections
ValidPermutations == {s \in PermutationInputs : ~Malformed(s)}

MeshIdx == 0..(MeshMaxLen \div 2)
MeshPairLists == BoundedSeq(MeshIdx \X MeshIdx, MeshMaxLen)

\* a slice that lists the elements of a set
RECURSIVE SliceOf(_)
SliceOf(S) == IF S = {} THEN <<>>
              ELSE LET x == CHOOSE y \in S : \A z \in S : y <= z
                   IN  <<x>> \o SliceOf(S \ {x})

InitS ==
    /\ ctor = None /\ mesh = None /\ base = None /\ sel = None
    /\ origin = "none" /\ res = None /\ spc = "start"

\* Mesh::from_permutation(p)
DoFromPermutation ==
    /\ spc = "start"
    /\ \E p \in ValidPermutations :
           /\ ctor' = [name |-> "from_permutation", permutation |-> p]
           /\ mesh' = FromPermutation(p)
    /\ spc' = IF IsPanic(mesh') THEN "panic" ELSE "mesh"
    /\ UNCHANGED <<base, sel, origin, res, varsM, varsO, varsP>>

\* Mesh::from_connections(from_vec(ve), from_vec(ef))
DoFromConnections ==
    /\ spc = "start"
    /\ \E ve \in MeshPairLists, ef \in MeshPairLists :
           mesh' = FromConnections(FromVec(ve), FromVec(ef))
    /\ ctor' = [name |-> "from_connections"]
    /\ spc' = IF IsPanic(mesh') THEN "panic" ELSE "mesh"
    /\ UNCHANGED <<base, sel, origin, res, varsM, varsO, varsP>>

\* mesh.simplicies(vertices, edges, faces) with indices the mesh has
DoSimplicies ==
    /\ spc = "mesh"
    /\ \E V \in SUBSET VertexRange(mesh), E \in SUBSET EdgeRange(mesh),
          F \in SUBSET FaceRange(mesh) :
           base' = Simplicies(SliceOf(V), SliceOf(E), SliceOf(F))
    /\ sel' = base'
    /\ origin' = "simplicies"
    /\ spc' = "selected"
    /\ UNCHANGED <<ctor, mesh, res, varsM, varsO, varsP>>

\* base.closure()
DoClosure ==
    /\ spc = "selected" /\ origin = "simplicies"
    /\ sel' = Closure(mesh, base)
    /\ origin' = "closure"
    /\ spc' = IF IsPanic(sel') THEN "panic" ELSE "selected"
    /\ UNCHANGED <<ctor, mesh, base, res, varsM, varsO, varsP>>

\* base.star()
DoStar ==
    /\ spc = "selected" /\ origin = "simplicies"
    /\ sel' = Star(mesh, base)
    /\ origin' = "star"
    /\ spc' = IF IsPanic(sel') THEN "panic" ELSE "selected"
    /\ UNCHANGED <<ctor, mesh, base, res, varsM, varsO, varsP>>

\* base.link()
DoLink ==
    /\ spc = "selected" /\ origin = "simplicies"
    /\ sel' = Link(mesh, base)
    /\ origin' = "link"
    /\ spc' = IF IsPanic(sel') THEN "panic" ELSE "selected"
    /\ UNCHANGED <<ctor, mesh, base, res, varsM, varsO, varsP>>

\* sel.is_complex()
DoIsComplex ==
    /\ spc = "selected"
    /\ res' = [op |-> "is_complex", answer |-> IsComplex(mesh, sel)]
    /\ spc' = IF IsPanic(res'.answer) THEN "panic" ELSE "queried"
    /\ UNCHANGED <<ctor, mesh, base, sel, origin, varsM, varsO, varsP>>

\* sel.is_pure_complex()
DoIsPureComplex ==
    /\ spc = "selected"
    /\ res' = [op |-> "is_pure_complex", answer |-> IsPureComplex(mesh, sel)]
    /\ spc' = IF IsPanic(res'.answer) THEN "panic" ELSE "queried"
    /\ UNCHANGED <<ctor, mesh, base, sel, origin, varsM, varsO, varsP>>

NextS ==
    \/ DoFromPermutation
    \/ DoFromConnections
    \/ DoSimplicies
    \/ DoClosure
    \/ DoStar
    \/ DoLink
    \/ DoIsComplex
    \/ DoIsPureComplex

\* ---- claims about Simplices

C8_ClosureIsComplex ==
    /\ origin = "closure" => ~IsPanic(sel)
    /\ (origin = "closure" /\ res # None /\ res.op = "is_complex") =>
           res.answer = [value |-> TRUE]

\* the face orbits and the number of vertex orbits of the mesh's permutation
FaceOrbits == GatherFaces(ctor.permutation).orbits
FullSelection ==
    [vertices |-> 0..(Len(GatherVertices(ctor.permutation).orbits) - 1),
     edges |-> 0..(Len(ctor.permutation) - 1),
     faces |-> 0..(Len(FaceOrbits) - 1)]

\* C9: on a mesh from_permutation built from n > 0 half-edges,
\* is_pure_complex answers Some(2) on the full selection, and None on a
\* selection that has a face without one of the half-edges of its orbit.
C9_PureComplex ==
    (/\ spc = "queried"
     /\ ctor.name = "from_permutation" /\ Len(ctor.permutation) > 0
     /\ origin = "simplicies" /\ res.op = "is_pure_complex") =>
        /\ sel = FullSelection => res.answer = [value |-> [some |-> 2]]
        /\ (\E f \in sel.faces :
                \E h \in Range(FaceOrbits[f + 1].edges) : h \notin sel.edges)
               => res.answer = [value |-> None]

\* the incidences the mesh was built from
EdgesOfFace(m, f) ==
    {e \in EdgeRange(m) : f \in Range(GetConnected(m.edge_face, e).slice)}
VerticesOfEdge(m, e) ==
    {v \in VertexRange(m) : e \in Range(GetConnected(m.vertex_edge, v).slice)}

\* C10: when is_complex answers true, every edge of every face of S is in
\* S.edges and every vertex of every edge of S.edges is in S.vertices.
C10_IsComplexClosed ==
    (spc = "queried" /\ res.op = "is_complex" /\ res.answer = [value |-> TRUE]) =>
        /\ \A f \in sel.faces : EdgesOfFace(mesh, f) \subseteq sel.edges
        /\ \A e \in sel.edges \cap EdgeRange(mesh) :
               VerticesOfEdge(mesh, e) \subseteq sel.vertices

IdleP ==
    /\ perm = <<>> /\ call = "none" /\ gmode = "none" /\ seed = 0 /\ current = 0
    /\ orbit = <<>> /\ steps = 0 /\ found = <<>> /\ gvertices = None
    /\ gfaces = None /\ built = None /\ ppc = "idle"

IdleS ==
    /\ ctor = None /\ mesh = None /\ base = None /\ sel = None /\ origin = "none"
    /\ res = None /\ spc = "idle"

InitMatrix == InitM /\ IdleO /\ IdleP /\ IdleS

SpecMatrix == InitMatrix /\ [][NextM]_vars

InitOrbit == InitO /\ IdleM /\ IdleP /\ IdleS

SpecOrbit == InitOrbit /\ [][NextO]_vars

InitPermutation == InitP /\ IdleM /\ IdleO /\ IdleS

SpecPermutation == InitPermutation /\ [][NextP]_vars

InitMesh == InitS /\ IdleM /\ IdleO /\ IdleP

SpecMesh == InitMesh /\ [][NextS]_vars

====
